---- MODULE Spec2Model ----
(***************************************************************************)
(* Model of lib/charms/grafana_agent_k8s/v0/grafana_agent.py:              *)
(* LogProxyConsumer (promtail provisioning, promtail config file, registry *)
(* of grafana agents) and LogProxyProvider (publication of relation data). *)
(*                                                                         *)
(* One action models one event handler run from dispatch to return or to   *)
(* the exception that aborts it.  A handler is a composition of step       *)
(* operators over a record `s` holding the files, the stored state, the    *)
(* Pebble plan, the exception raised so far (`error`) and the calls issued *)
(* to the container, the network and the local filesystem (`ops`).         *)
(***************************************************************************)
EXTENDS Naturals, Sequences, FiniteSets, TLC

\* ------------------------------------------------------------------ bounds
\* Longest clients list a relation-changed event is still delivered to.
MaxClients == 2
\* Longest clients list of a document handed to _add_client / _remove_client,
\* and the number of calls applied to it in a row.
MaxDocClients == 2
MaxApplied == 2

\* --------------------------------------------------------------- constants
HTTP_LISTEN_PORT == 9080
GRPC_LISTEN_PORT == 0
POSITIONS_FILENAME == "/tmp/positions.yaml"
SERVICE_NAME == "promtail"
PROMTAIL_BINARY_ZIP_URL == "https://github.com/grafana/loki/releases/download/v2.4.1/promtail-linux-amd64.zip"
BINARY_SHA25SUM == "978391a174e71cfef444ab9dc012f95d5d7eae0d682eaf1da2ea18f793452031"

\* The container name given to LogProxyConsumer.__init__: the name of the
\* workload service restarted by relation-changed.
container_name == "workload"

\* Remote units of the log_proxy relation and the endpoints they announce.
Units == {"agent/0", "agent/1"}
Urls == {"http://10.0.0.5:3100/loki/api/v1/push", "http://10.0.0.6:3100/loki/api/v1/push"}

\* Contents a file can have: nothing there, the released archive, any other
\* complete archive, and what a download cut short leaves behind.
Absent == "absent"
Archives == {"official", "tampered"}
Truncated == "truncated"

\* hashlib.sha256(...).hexdigest() of each content.
sha256(content) ==
    CASE content = "official" -> BINARY_SHA25SUM
      [] content = "tampered" -> "5f70bf18a086007016e948b04aed3b82103a36bea41755b6cddfaf10ace3c6ef"
      [] OTHER -> "e3b0c44298fc1c149afbf4c8996fb92427ae41e4649b934ca495991b7852b855"

NoError == "none"

\* The external calls of a handler that can fail on their own (network,
\* Pebble, filesystem); "none" is a run in which none does.
Faults == {"none", "list_files", "urlopen", "read", "unzip", "push_binary",
           "pull", "push", "pull_clients", "add_layer", "restart_workload",
           "restart", "stop"}

\* ------------------------------------------------------------------- state
VARIABLES
    config_file,      \* CONFIG_PATH in the container: [exists, text]
    grafana_agents,   \* _stored.grafana_agents: unit -> url, decoded; an
                      \* assignment to it stands even if the handler raises later
    zip_file,         \* content of BINARY_ZIP_PATH on the charm's filesystem
    local_binary,     \* content of WORKLOAD_BINARY_PATH on the charm's filesystem
    workload_binary,  \* content of WORKLOAD_BINARY_PATH in the container
    layer,            \* whether the Pebble plan declares SERVICE_NAME
    running,          \* whether the SERVICE_NAME service runs
    last,             \* the event handled last, its outcome and its calls
    pending,          \* the relation-changed event whose handling just aborted
    relation_data,    \* LogProxyProvider: this unit's "data" per relation
    publications,     \* LogProxyProvider: writes of "data" per relation
    provider_last,    \* LogProxyProvider: the event handled last
    document0,        \* the config dict first handed to _add_client / _remove_client
    document,         \* the dict returned by the calls applied so far
    applied           \* the calls applied: [op, url]

consumer_vars == <<config_file, grafana_agents, zip_file, local_binary,
                   workload_binary, layer, running, last, pending>>
provider_vars == <<relation_data, publications, provider_last>>
document_vars == <<document0, document, applied>>
vars == <<config_file, grafana_agents, zip_file, local_binary, workload_binary,
          layer, running, last, pending, relation_data, publications,
          provider_last, document0, document, applied>>

\* ------------------------------------------------------------ yaml and dicts
\* yaml.dump writes a mapping one key after the other in sorted key order.
KeyOrder == <<"clients", "positions", "scrape_configs", "server">>

yaml_dump(doc) ==
    LET ks == SelectSeq(KeyOrder, LAMBDA k : k \in DOMAIN doc)
    IN  [i \in DOMAIN ks |-> <<ks[i], doc[ks[i]]>>]

yaml_safe_load(text) ==
    [k \in {text[i][1] : i \in DOMAIN text} |->
        LET i == CHOOSE j \in DOMAIN text : text[j][1] = k IN text[i][2]]

\* dict.update(other): the keys of `other` are set in `d`.
dict_update(d, other) ==
    [k \in DOMAIN d \cup DOMAIN other |-> IF k \in DOMAIN other THEN other[k] ELSE d[k]]

EmptyDict == [k \in {} |-> 0]

\* ------------------------------------------------------------ config document
_server_config ==
    [server |-> [http_listen_port |-> HTTP_LISTEN_PORT,
                 grpc_listen_port |-> GRPC_LISTEN_PORT]]

_positions == [positions |-> [filename |-> POSITIONS_FILENAME]]

_scrape_configs ==
    [scrape_configs |->
        <<[job_name |-> "system",
           static_configs |->
             <<[targets |-> <<"localhost">>,
                labels |-> ("job" :> "juju_model_uuid_app"
                            @@ "__path__" :> "/var/log/dmesg")]>>]>>]

\* Mutant: the positions section is left out.
_initial_config_no_positions ==
    dict_update(dict_update(EmptyDict, _server_config), _scrape_configs)

_initial_config ==
    dict_update(dict_update(dict_update(EmptyDict, _server_config), _positions),
                _scrape_configs)

\* Mutant: a URL already in the list is not appended again.
_add_client_dedup(current_config, agent_url) ==
    IF "clients" \in DOMAIN current_config
    THEN IF \E i \in DOMAIN current_config["clients"] :
                current_config["clients"][i] = [url |-> agent_url]
         THEN current_config
         ELSE [current_config EXCEPT !["clients"] = Append(@, [url |-> agent_url])]
    ELSE dict_update(current_config, [clients |-> <<[url |-> agent_url]>>])

_add_client(current_config, agent_url) ==
    IF "clients" \in DOMAIN current_config
    THEN [current_config EXCEPT !["clients"] = Append(@, [url |-> agent_url])]
    ELSE dict_update(current_config, [clients |-> <<[url |-> agent_url]>>])

\* Mutant: only the first entry equal to the URL is removed.
_remove_client_first(current_config, agent_url) ==
    IF "clients" \in DOMAIN current_config /\ current_config["clients"] # <<>>
    THEN LET cs == current_config["clients"]
             hits == {i \in DOMAIN cs : cs[i] = [url |-> agent_url]}
             first == IF hits = {} THEN 0
                      ELSE CHOOSE i \in hits : \A j \in hits : i <= j
         IN  [current_config EXCEPT
                !["clients"] = [i \in 1..(Len(cs) - (IF first = 0 THEN 0 ELSE 1)) |->
                                   IF first = 0 \/ i < first THEN cs[i] ELSE cs[i + 1]]]
    ELSE current_config

\* Mutant: a document without clients gets an empty clients list.
_remove_client_creates_key(current_config, agent_url) ==
    IF "clients" \in DOMAIN current_config
    THEN [current_config EXCEPT
            !["clients"] = SelectSeq(@, LAMBDA c : c # [url |-> agent_url])]
    ELSE dict_update(current_config, [clients |-> <<>>])

_remove_client(current_config, agent_url) ==
    IF "clients" \in DOMAIN current_config /\ current_config["clients"] # <<>>
    THEN [current_config EXCEPT
            !["clients"] = SelectSeq(@, LAMBDA c : c # [url |-> agent_url])]
    ELSE current_config

\* ------------------------------------------------------------------ events
\* event.relation.data[event.unit].get("data"): None, or the JSON document
\* the remote unit published.
NoData == [present |-> FALSE, promtail_binary_zip_url |-> "", loki_push_api |-> ""]
Data(url) == [present |-> TRUE, promtail_binary_zip_url |-> PROMTAIL_BINARY_ZIP_URL,
              loki_push_api |-> url]
Datas == {NoData} \cup {Data(u) : u \in Urls}

Event(name, unit, data) == [name |-> name, unit |-> unit, data |-> data]

\* ------------------------------------------------- exceptions and call trace
Raise(s, e) == [s EXCEPT !.error = e]
Call(s, op) == [s EXCEPT !.ops = Append(@, op)]
\* An exception raised by a statement skips the statements after it.
Try(s, next) == IF s.error # NoError THEN s ELSE next

\* ----------------------------------------------------- container (Pebble)
\* A call to Pebble fails with ConnectionError when Pebble cannot be reached
\* (the injected fault) and with APIError when the plan does not declare the
\* service.  The workload service is declared by the charm; only SERVICE_NAME
\* is tracked.
container_restart(s, service_name, fault) ==
    IF service_name = SERVICE_NAME
    THEN LET s1 == Call(s, "restart_promtail") IN
         IF fault = "restart" THEN Raise(s1, "pebble.ConnectionError")
         ELSE IF ~s1.layer THEN Raise(s1, "pebble.APIError")
         ELSE [s1 EXCEPT !.running = TRUE]
    ELSE LET s1 == Call(s, "restart_workload") IN
         IF fault = "restart_workload" THEN Raise(s1, "pebble.ConnectionError") ELSE s1

container_stop(s, service_name, fault) ==
    LET s1 == Call(s, "stop_promtail") IN
    IF fault = "stop" THEN Raise(s1, "pebble.ConnectionError")
    ELSE IF ~s1.layer THEN Raise(s1, "pebble.APIError")
    ELSE [s1 EXCEPT !.running = FALSE]

\* ----------------------------------------------------------- provisioning
\* Mutant: the binary in the container is never found.
_is_promtail_binary_in_workload_never(s) == FALSE

_is_promtail_binary_in_workload(s) == s.workload # Absent

_download_promtail(s, event, archive, fault) ==
    IF ~event.data.present THEN Raise(s, "TypeError")
    ELSE LET s1 == Call(s, "urlopen") IN
         IF fault = "urlopen" THEN Raise(s1, "URLError")
         ELSE IF fault = "read" THEN Raise([s1 EXCEPT !.zip = Truncated], "OSError")
         ELSE [s1 EXCEPT !.zip = archive]

\* Mutant: the digest is computed and never compared.
_check_sha256sum_unchecked(s) == TRUE

_check_sha256sum(s) == BINARY_SHA25SUM = sha256(s.zip)

_unzip_binary(s, fault) ==
    LET s1 == Call(s, "unzip") IN
    IF fault = "unzip" \/ s1.zip \notin Archives THEN Raise(s1, "BadZipFile")
    ELSE [s1 EXCEPT !.local = s1.zip]

_upload_binary(s, fault) ==
    IF s.local = Absent THEN Raise(s, "FileNotFoundError")
    ELSE LET s1 == Call(s, "push_binary") IN
         IF fault = "push_binary" THEN Raise(s1, "pebble.ConnectionError")
         ELSE [s1 EXCEPT !.workload = s1.local]

_obtain_promtail(s, event, archive, fault) ==
    LET s0 == Call(s, "list_files") IN
    IF fault = "list_files" THEN Raise(s0, "pebble.ConnectionError")
    ELSE IF _is_promtail_binary_in_workload(s0) THEN s0
    ELSE LET s1 == _download_promtail(s0, event, archive, fault)
             s2 == Try(s1, Call(s1, "check_sha256sum"))
             s3 == Try(s2, IF ~_check_sha256sum(s2)
                           THEN Raise(s2, "PromtailDigestError") ELSE s2)
             s4 == Try(s3, _unzip_binary(s3, fault))
         IN  Try(s4, _upload_binary(s4, fault))

\* ------------------------------------------------------------ config file
\* self._current_config: pull CONFIG_PATH and parse it.  `point` names the call
\* for fault injection.  PullError is the exception of the pull, if any.
PullError(s, fault, point) ==
    IF fault = point THEN "pebble.ConnectionError"
    ELSE IF ~s.config.exists THEN "pebble.PathError"
    ELSE NoError

_current_config(s) == yaml_safe_load(s.config.text)

\* Mutant: the departing unit is looked up with dict.get, so a unit the
\* registry does not hold yields no exception here.
_build_config_file_get(s, event, fault) ==
    LET e == PullError(s, fault, "pull") IN
    IF e # NoError THEN [error |-> e, text |-> <<>>, ops |-> <<"pull">>]
    ELSE [error |-> NoError, ops |-> <<"pull">>,
          text |-> yaml_dump(
              IF event.name = "relation_changed"
              THEN _add_client(_current_config(s), event.data.loki_push_api)
              ELSE _remove_client(_current_config(s),
                                  IF event.unit \in DOMAIN s.agents
                                  THEN s.agents[event.unit] ELSE ""))]

\* [error, text, ops]: the yaml text built, or the exception raised on the way.
_build_config_file(s, event, fault) ==
    IF event.name = "relation_changed"
    THEN IF ~event.data.present
         THEN [error |-> "TypeError", text |-> <<>>, ops |-> <<>>]
         ELSE LET e == PullError(s, fault, "pull") IN
              IF e # NoError THEN [error |-> e, text |-> <<>>, ops |-> <<"pull">>]
              ELSE [error |-> NoError, ops |-> <<"pull">>,
                    text |-> yaml_dump(_add_client(_current_config(s),
                                                   event.data.loki_push_api))]
    ELSE IF event.name = "relation_departed"
    THEN IF event.unit \notin DOMAIN s.agents
         THEN [error |-> "KeyError", text |-> <<>>, ops |-> <<>>]
         ELSE LET e == PullError(s, fault, "pull") IN
              IF e # NoError THEN [error |-> e, text |-> <<>>, ops |-> <<"pull">>]
              ELSE [error |-> NoError, ops |-> <<"pull">>,
                    text |-> yaml_dump(_remove_client(_current_config(s),
                                                      s.agents[event.unit]))]
    ELSE [error |-> NoError, text |-> yaml_dump(EmptyDict), ops |-> <<>>]

container_push_config(s, text, fault) ==
    LET s1 == Call(s, "push_config") IN
    IF fault = "push" THEN Raise(s1, "pebble.ConnectionError")
    ELSE [s1 EXCEPT !.config = [exists |-> TRUE, text |-> text]]

_update_config(s, event, fault) ==
    LET b == _build_config_file(s, event, fault)
        s1 == [s EXCEPT !.ops = @ \o b.ops]
    IN  IF b.error # NoError THEN Raise(s1, b.error)
        ELSE container_push_config(s1, b.text, fault)

\* ---------------------------------------------------------------- registry
\* Mutant: the registry is rebuilt from the event alone.
_update_agents_list_reset(s, event) ==
    IF event.name = "relation_changed"
    THEN IF ~event.data.present THEN Raise(s, "TypeError")
         ELSE [Call(s, "record") EXCEPT
                 !.agents = [u \in {event.unit} |-> event.data.loki_push_api]]
    ELSE IF event.name = "relation_departed"
    THEN IF event.unit \notin DOMAIN s.agents THEN Raise(s, "KeyError")
         ELSE [Call(s, "forget") EXCEPT !.agents = EmptyDict]
    ELSE s

_update_agents_list(s, event) ==
    IF event.name = "relation_changed"
    THEN IF ~event.data.present THEN Raise(s, "TypeError")
         ELSE [Call(s, "record") EXCEPT
                 !.agents = dict_update(@, [u \in {event.unit} |->
                                               event.data.loki_push_api])]
    ELSE IF event.name = "relation_departed"
    THEN IF event.unit \notin DOMAIN s.agents THEN Raise(s, "KeyError")
         ELSE [Call(s, "forget") EXCEPT
                 !.agents = [u \in DOMAIN @ \ {event.unit} |-> @[u]]]
    ELSE s

_add_pebble_layer(s, fault) ==
    LET s1 == Call(s, "add_layer") IN
    IF fault = "add_layer" THEN Raise(s1, "pebble.ConnectionError")
    ELSE [s1 EXCEPT !.layer = TRUE]

\* ---------------------------------------------------------------- handlers
_on_log_proxy_relation_created(s, event, fault) ==
    container_push_config(s, yaml_dump(_initial_config), fault)

\* Mutant: the handler does not look at the peer's data.
HasData_unchecked(event) == TRUE

\* event.relation.data[event.unit].get("data", None) is truthy
HasData(event) == event.data.present

\* Mutant: the config is updated before the binary is obtained.
_on_log_proxy_relation_changed_config_first(s, event, archive, fault) ==
    IF HasData(event)
    THEN LET s1 == _update_config(s, event, fault)
             s2 == Try(s1, _obtain_promtail(s1, event, archive, fault))
             s3 == Try(s2, _update_agents_list(s2, event))
             s4 == Try(s3, _add_pebble_layer(s3, fault))
             s5 == Try(s4, container_restart(s4, container_name, fault))
         IN  Try(s5, container_restart(s5, SERVICE_NAME, fault))
    ELSE s

\* Mutant: the sidecar is restarted before the workload service.
_on_log_proxy_relation_changed_sidecar_first(s, event, archive, fault) ==
    IF HasData(event)
    THEN LET s1 == _obtain_promtail(s, event, archive, fault)
             s2 == Try(s1, _update_config(s1, event, fault))
             s3 == Try(s2, _update_agents_list(s2, event))
             s4 == Try(s3, _add_pebble_layer(s3, fault))
             s5 == Try(s4, container_restart(s4, SERVICE_NAME, fault))
         IN  Try(s5, container_restart(s5, container_name, fault))
    ELSE s

_on_log_proxy_relation_changed(s, event, archive, fault) ==
    IF HasData(event)
    THEN LET s1 == _obtain_promtail(s, event, archive, fault)
             s2 == Try(s1, _update_config(s1, event, fault))
             s3 == Try(s2, _update_agents_list(s2, event))
             s4 == Try(s3, _add_pebble_layer(s3, fault))
             s5 == Try(s4, container_restart(s4, container_name, fault))
         IN  Try(s5, container_restart(s5, SERVICE_NAME, fault))
    ELSE s

\* len(self._current_config["clients"]) == 0 ? stop : restart
StopOrRestart(s, fault) ==
    LET s1 == Call(s, "pull")
        e == PullError(s1, fault, "pull_clients")
    IN  IF e # NoError THEN Raise(s1, e)
        ELSE IF "clients" \notin DOMAIN _current_config(s1) THEN Raise(s1, "KeyError")
        ELSE IF Len(_current_config(s1)["clients"]) = 0
             THEN container_stop(s1, SERVICE_NAME, fault)
             ELSE container_restart(s1, SERVICE_NAME, fault)

\* Mutant: the departure declares the layer and restarts the workload service,
\* as relation-changed does.
_on_log_proxy_relation_departed_as_changed(s, event, fault) ==
    LET s1 == _update_config(s, event, fault)
        s2 == Try(s1, _update_agents_list(s1, event))
        s3 == Try(s2, _add_pebble_layer(s2, fault))
        s4 == Try(s3, container_restart(s3, container_name, fault))
    IN  Try(s4, StopOrRestart(s4, fault))

_on_log_proxy_relation_departed(s, event, fault) ==
    LET s1 == _update_config(s, event, fault)
        s2 == Try(s1, _update_agents_list(s1, event))
    IN  Try(s2, StopOrRestart(s2, fault))

\* ------------------------------------------------------- LogProxyProvider
\* Relations of the provider's log_proxy endpoint, the bind addresses
\* network-get can report (None when there is none) and the charm's
\* _http_listen_port.
Relations == {"log_proxy:0", "log_proxy:1"}
BindAddresses == {"None", "10.0.0.5", "10.0.0.6"}
Ports == {3100, 3500}

unit_ip(bind_address) == IF bind_address # "None" THEN bind_address ELSE ""

_loki_push_api(bind_address, port) ==
    [loki_push_api |->
        "http://" \o unit_ip(bind_address) \o ":" \o ToString(port) \o "/loki/api/v1/push"]

_promtail_binary_url == [promtail_binary_zip_url |-> PROMTAIL_BINARY_ZIP_URL]

\* Mutant: the data is published at every event.
Provider_on_log_proxy_relation_changed_always(bag, bind_address, port) ==
    <<dict_update(dict_update(EmptyDict, _loki_push_api(bind_address, port)),
                  _promtail_binary_url)>>

\* The value of event.relation.data[self._charm.unit] after the handler: `bag`
\* is <<>> while the "data" key is unset and <<document>> once it is set.
Provider_on_log_proxy_relation_changed(bag, bind_address, port) ==
    IF bag = <<>>
    THEN <<dict_update(dict_update(EmptyDict, _loki_push_api(bind_address, port)),
                       _promtail_binary_url)>>
    ELSE bag

\* ------------------------------------------------------------- the machine
NoEvent == Event("none", "None", NoData)

HandlersInit ==
    /\ config_file = [exists |-> FALSE, text |-> <<>>]
    /\ grafana_agents = EmptyDict
    /\ zip_file = Absent
    /\ local_binary = Absent
    /\ workload_binary = Absent
    /\ layer = FALSE
    /\ running = FALSE
    /\ last = [event |-> NoEvent, error |-> NoError, ops |-> <<>>, expected |-> <<>>]
    /\ pending = <<>>
    /\ relation_data = [r \in Relations |-> <<>>]
    /\ publications = [r \in Relations |-> 0]
    /\ provider_last = [relation |-> "None", prior |-> <<>>,
                        bind_address |-> "None", port |-> 0]

Init ==
    /\ HandlersInit
    /\ document0 = _initial_config
    /\ document = _initial_config
    /\ applied = <<>>

\* The state a handler starts from.
Current ==
    [config |-> config_file, agents |-> grafana_agents, zip |-> zip_file,
     local |-> local_binary, workload |-> workload_binary, layer |-> layer,
     running |-> running, error |-> NoError, ops |-> <<>>]

\* What a handler leaves behind, whether it returned or raised.
Handled(r, event, expected) ==
    /\ config_file' = r.config
    /\ grafana_agents' = r.agents
    /\ zip_file' = r.zip
    /\ local_binary' = r.local
    /\ workload_binary' = r.workload
    /\ layer' = r.layer
    /\ running' = r.running
    /\ last' = [event |-> event, error |-> r.error, ops |-> r.ops,
                expected |-> expected]

\* The clients list of a config file ([] when the file or the key is missing).
Clients(file) ==
    IF file.exists /\ "clients" \in DOMAIN yaml_safe_load(file.text)
    THEN yaml_safe_load(file.text)["clients"] ELSE <<>>

\* The on-sidecar config, the registry and the sidecar run state.
Obs(s) == [config |-> s.config, agents |-> s.agents, running |-> s.running]

CreatedFaults == {"none", "push"}
ChangedFaults == {"none", "list_files", "urlopen", "read", "unzip", "push_binary",
                  "pull", "push", "add_layer", "restart_workload", "restart"}
DepartedFaults == {"none", "pull", "push", "pull_clients", "restart", "stop"}

RelationCreated ==
    \E fault \in CreatedFaults :
    \E event \in {Event("relation_created", "None", NoData)} :
    \E r \in {_on_log_proxy_relation_created(Current, event, fault)} :
            /\ Handled(r, event, <<>>)
            /\ pending' = <<>>
            /\ UNCHANGED <<provider_vars, document_vars>>

\* The archive matters to a run that downloads, a fault to a run that calls.
ArchivesServed(data) ==
    IF data.present /\ workload_binary = Absent THEN Archives ELSE {"official"}

RelationChanged ==
    \E unit \in Units,
       data \in {d \in Datas : d.present => Len(Clients(config_file)) < MaxClients} :
    \E archive \in ArchivesServed(data),
       fault \in IF data.present THEN ChangedFaults ELSE {"none"} :
    \E event \in {Event("relation_changed", unit, data)} :
    \E r \in {_on_log_proxy_relation_changed(Current, event, archive, fault)},
       single \in {_on_log_proxy_relation_changed(Current, event, "official", "none")} :
        LET redelivery == /\ pending # <<>>
                          /\ pending[1].event = event
                          /\ r.error = NoError
        IN  /\ Handled(r, event, IF redelivery THEN <<pending[1].expected>> ELSE <<>>)
            /\ pending' = IF r.error # NoError /\ single.error = NoError
                          THEN <<[event |-> event, expected |-> Obs(single)]>>
                          ELSE <<>>
            /\ UNCHANGED <<provider_vars, document_vars>>

RelationDeparted ==
    \E unit \in Units, fault \in DepartedFaults :
    \E event \in {Event("relation_departed", unit, NoData)} :
    \E r \in {_on_log_proxy_relation_departed(Current, event, fault)} :
            /\ Handled(r, event, <<>>)
            /\ pending' = <<>>
            /\ UNCHANGED <<provider_vars, document_vars>>

ProviderRelationChanged ==
    \E relation \in Relations, bind_address \in BindAddresses, port \in Ports :
        LET bag == Provider_on_log_proxy_relation_changed(
                       relation_data[relation], bind_address, port)
        IN  /\ relation_data' = [relation_data EXCEPT ![relation] = bag]
            /\ publications' = [publications EXCEPT ![relation] =
                                   IF relation_data[relation] = <<>> THEN @ + 1 ELSE @]
            /\ provider_last' = [relation |-> relation,
                                 prior |-> relation_data[relation],
                                 bind_address |-> bind_address, port |-> port]
            /\ UNCHANGED <<consumer_vars, document_vars>>

Next == RelationCreated \/ RelationChanged \/ RelationDeparted

Spec == Init /\ [][Next]_vars

\* The runs in which every handler returns: no call fails and no exception is
\* raised.
CompletedNext ==
    \/ RelationCreated /\ last'.error = NoError
    \/ RelationChanged /\ last'.error = NoError
    \/ RelationDeparted /\ last'.error = NoError

SpecCompleted == Init /\ [][CompletedNext]_vars

ProviderNext == ProviderRelationChanged

ProviderSpec == Init /\ [][ProviderNext]_vars

\* ------------------------------------------- _add_client and _remove_client
\* The config dicts handed to the two functions: the initial config, without
\* clients or with a clients list of up to MaxDocClients entries.
ClientLists ==
    UNION {[1..n -> {[url |-> u] : u \in Urls}] : n \in 0..MaxDocClients}
Docs ==
    {_initial_config}
        \cup {dict_update(_initial_config, [clients |-> cs]) : cs \in ClientLists}

DocInit ==
    /\ HandlersInit
    /\ document0 \in Docs
    /\ document = document0
    /\ applied = <<>>

AddClient ==
    \E agent_url \in Urls :
        /\ Len(applied) < MaxApplied
        /\ document' = _add_client(document, agent_url)
        /\ applied' = Append(applied, [op |-> "_add_client", url |-> agent_url])
        /\ UNCHANGED <<document0, consumer_vars, provider_vars>>

RemoveClient ==
    \E agent_url \in Urls :
        /\ Len(applied) < MaxApplied
        /\ document' = _remove_client(document, agent_url)
        /\ applied' = Append(applied, [op |-> "_remove_client", url |-> agent_url])
        /\ UNCHANGED <<document0, consumer_vars, provider_vars>>

DocNext == AddClient \/ RemoveClient

DocSpec == DocInit /\ [][DocNext]_vars

\* ================================================================== claims
ClientUrls == {Clients(config_file)[i].url : i \in DOMAIN Clients(config_file)}
AgentUrls == {grafana_agents[u] : u \in DOMAIN grafana_agents}
Issued(op) == \E i \in DOMAIN last.ops : last.ops[i] = op
\* The exceptions of calls that fail on their own, as opposed to those the
\* handler's own state decides.
InjectedErrors == {"pebble.ConnectionError", "URLError", "OSError", "BadZipFile"}

\* The runs in which no call fails on its own: a handler raises only what its
\* own state decides (KeyError, PathError, APIError, PromtailDigestError).
NoFaultNext ==
    \/ RelationCreated /\ last'.error \notin InjectedErrors
    \/ RelationChanged /\ last'.error \notin InjectedErrors
    \/ RelationDeparted /\ last'.error \notin InjectedErrors

SpecNoFault == Init /\ [][NoFaultNext]_vars

\* C1 (stated as claimed): when every handler so far returned, the set of URLs in
\* the clients list of the config file equals the set of URLs in the registry.
C1_MembershipConsistency == ClientUrls = AgentUrls

\* C2: the binary in the container and the binary unpacked locally come from an
\* archive whose SHA-256 is the pinned digest; a handler that downloaded an
\* archive with another digest raised PromtailDigestError and issued neither
\* the unzip nor the push of the binary.
C2_ChecksumIntegrity ==
    /\ workload_binary # Absent => sha256(workload_binary) = BINARY_SHA25SUM
    /\ local_binary # Absent => sha256(local_binary) = BINARY_SHA25SUM
    /\ (Issued("check_sha256sum") /\ sha256(zip_file) # BINARY_SHA25SUM)
         => /\ last.error = "PromtailDigestError"
            /\ ~Issued("unzip")
            /\ ~Issued("push_binary")

C2_Witness ==
    /\ last.event.name = "relation_changed"
    /\ last.error = "PromtailDigestError"
    /\ zip_file = "tampered"
    /\ workload_binary = Absent

\* C3: a relation-changed handler that fails while provisioning (its last call is
\* one of _obtain_promtail's) leaves the config file, the registry, the declared
\* layer and the run state of the sidecar as they were.
ProvisioningOps == {"list_files", "urlopen", "check_sha256sum", "unzip", "push_binary"}
ProvisioningFailed(l) ==
    /\ l.event.name = "relation_changed"
    /\ l.error # NoError
    /\ l.ops # <<>>
    /\ l.ops[Len(l.ops)] \in ProvisioningOps

C3_ProvisionFailureAborts ==
    [][ProvisioningFailed(last')
         => UNCHANGED <<config_file, grafana_agents, layer, running>>]_vars

C3_Witness ==
    /\ ProvisioningFailed(last)
    /\ config_file.exists
    /\ zip_file = "tampered"
    /\ last.error = "PromtailDigestError"

\* C4 (stated as claimed): when a relation-departed handler in which no call
\* failed on its own has removed the last entry of the registry, the clients
\* list is empty and the sidecar was stopped, not restarted.
C4_SoleDepartureStops ==
    (/\ last.event.name = "relation_departed"
     /\ last.error \notin InjectedErrors
     /\ Issued("forget")
     /\ DOMAIN grafana_agents = {})
    => /\ Clients(config_file) = <<>>
       /\ Issued("stop_promtail")
       /\ ~Issued("restart_promtail")
       /\ ~running

\* C5 (stated as claimed): the clients list holds the URL of each registered
\* consumer at most once.
C5_ClientsAtMostOnce ==
    \A u \in DOMAIN grafana_agents :
        Cardinality({i \in DOMAIN Clients(config_file) :
                        Clients(config_file)[i].url = grafana_agents[u]}) <= 1

\* C6: the provider writes "data" at the first relation-changed event of a
\* relation, with loki_push_api and promtail_binary_zip_url in it; a later event
\* writes nothing, so the value never changes once set.
C6_State ==
    /\ \A r \in Relations : publications[r] <= 1
    /\ \A r \in Relations : publications[r] = 1 <=> relation_data[r] # <<>>
    /\ provider_last.relation \in Relations =>
         LET bag == relation_data[provider_last.relation] IN
         /\ bag # <<>>
         /\ DOMAIN bag[1] = {"loki_push_api", "promtail_binary_zip_url"}
         /\ provider_last.prior # <<>> => bag = provider_last.prior

C6_PublishedOnce ==
    /\ []C6_State
    /\ [][\A r \in Relations :
            relation_data[r] # <<>> => relation_data'[r] = relation_data[r]]_vars

C6_Witness ==
    /\ provider_last.relation \in Relations
    /\ provider_last.prior # <<>>
    /\ relation_data[provider_last.relation][1].loki_push_api
         # _loki_push_api(provider_last.bind_address, provider_last.port).loki_push_api

\* C7 (stated as claimed): after a relation-created handler returned, the config
\* file is the initial document and the sidecar is not running.
InitialDocument(file) ==
    /\ file.exists
    /\ LET doc == yaml_safe_load(file.text) IN
       /\ DOMAIN doc = {"server", "positions", "scrape_configs"}
       /\ doc["server"] = [http_listen_port |-> HTTP_LISTEN_PORT,
                           grpc_listen_port |-> GRPC_LISTEN_PORT]
       /\ doc["positions"] = [filename |-> POSITIONS_FILENAME]
       /\ Len(doc["scrape_configs"]) = 1

CreatedReturned(l) == l.event.name = "relation_created" /\ l.error = NoError

C7_CreatedNotRunning ==
    CreatedReturned(last) => InitialDocument(config_file) /\ ~running

\* C7 (amended): after a relation-created handler returned, the config file is
\* the initial document, and the handler left the run state of the sidecar as it
\* was.
C7_CreatedWritesInitialConfig ==
    /\ [](CreatedReturned(last) => InitialDocument(config_file))
    /\ [][CreatedReturned(last') => running' = running]_vars

C7_Witness ==
    /\ CreatedReturned(last)
    /\ running
    /\ DOMAIN grafana_agents # {}

\* C8: a relation-departed event of a unit the registry does not hold raises
\* KeyError before any call is issued: the config file, the registry, the layer
\* and the run state of the sidecar are unchanged.
C8_UnknownDepartureFails ==
    [][(last'.event.name = "relation_departed"
        /\ last'.event.unit \notin DOMAIN grafana_agents)
       => /\ last'.error = "KeyError"
          /\ last'.ops = <<>>
          /\ UNCHANGED <<config_file, grafana_agents, layer, running>>]_vars

C8_Witness ==
    /\ last.event.name = "relation_departed"
    /\ last.error = "KeyError"
    /\ last.ops = <<>>
    /\ last.event.unit \notin DOMAIN grafana_agents
    /\ DOMAIN grafana_agents # {}
    /\ Clients(config_file) # <<>>
    /\ running

\* C9: a relation-changed event whose peer has published no data issues no call
\* and changes nothing.
C9_NoDataNoOp ==
    [][(last'.event.name = "relation_changed" /\ ~last'.event.data.present)
       => /\ last'.ops = <<>>
          /\ last'.error = NoError
          /\ UNCHANGED <<config_file, grafana_agents, zip_file, local_binary,
                         workload_binary, layer, running>>]_vars

C9_Witness ==
    /\ last.event.name = "relation_changed"
    /\ ~last.event.data.present
    /\ running
    /\ Clients(config_file) # <<>>

\* C10 (stated as claimed): when an aborted relation-changed event is delivered
\* again and its handler returns, the config file, the registry and the run
\* state of the sidecar are those of a single handling that returned.
C10_RedeliveryIdempotent ==
    last.expected # <<>> => Obs(Current) = last.expected[1]

\* C11: a relation-changed handler that found data and returned issued its calls
\* in the order: binary (list_files alone, or list_files, download, digest
\* check, unzip, push), config (pull, push), registry, layer, restart of the
\* workload service, restart of the sidecar; it appended the peer's URL as one
\* client; afterwards the binary is installed, the layer declared, the sidecar
\* running, the clients list not empty and the peer registered with its URL.
ChangedReturned(l) ==
    /\ l.event.name = "relation_changed"
    /\ l.event.data.present
    /\ l.error = NoError

StepsAfterBinary ==
    <<"pull", "push_config", "record", "add_layer", "restart_workload",
      "restart_promtail">>
InstallSteps == <<"list_files", "urlopen", "check_sha256sum", "unzip", "push_binary">>

C11_State ==
    ChangedReturned(last) =>
        /\ last.ops \in {<<"list_files">> \o StepsAfterBinary,
                         InstallSteps \o StepsAfterBinary}
        /\ workload_binary # Absent
        /\ layer
        /\ running
        /\ Len(Clients(config_file)) >= 1
        /\ last.event.unit \in DOMAIN grafana_agents
        /\ grafana_agents[last.event.unit] = last.event.data.loki_push_api

C11_ChangedSequence ==
    /\ []C11_State
    /\ [][ChangedReturned(last') =>
            Clients(config_file') =
                Append(Clients(config_file), [url |-> last'.event.data.loki_push_api])]_vars

C11_Witness ==
    /\ ChangedReturned(last)
    /\ last.ops = InstallSteps \o StepsAfterBinary
    /\ Clients(config_file) = <<[url |-> last.event.data.loki_push_api]>>

\* C12: a relation-changed handler that starts with the binary in the container
\* issues no download, no digest check, no unzip and no push of the binary, and
\* leaves the archive and both binaries as they are.
C12_FastPath ==
    [][(workload_binary # Absent /\ last'.event.name = "relation_changed")
       => /\ \A i \in DOMAIN last'.ops :
                last'.ops[i] \notin {"urlopen", "check_sha256sum", "unzip", "push_binary"}
          /\ UNCHANGED <<zip_file, local_binary, workload_binary>>]_vars

C12_Witness ==
    /\ ChangedReturned(last)
    /\ last.ops = <<"list_files">> \o StepsAfterBinary
    /\ Len(Clients(config_file)) = 2

\* The clients list of a dict ([] when it has no clients key).
ClientsOf(doc) == IF "clients" \in DOMAIN doc THEN doc["clients"] ELSE <<>>

\* `seq` without its elements equal to `e`, in the order of `seq`.
RECURSIVE Without(_, _)
Without(seq, e) ==
    IF seq = <<>> THEN <<>>
    ELSE IF Head(seq) = e THEN Without(Tail(seq), e)
    ELSE <<Head(seq)>> \o Without(Tail(seq), e)

SameSections(doc, other) ==
    \A k \in (DOMAIN doc \cup DOMAIN other) \ {"clients"} :
        k \in DOMAIN doc /\ k \in DOMAIN other /\ doc[k] = other[k]

AddThenRemove(u) ==
    applied = <<[op |-> "_add_client", url |-> u], [op |-> "_remove_client", url |-> u]>>

\* C13 (stated as claimed): _remove_client(_add_client(doc, U), U) has
\* clients == [], for every doc and every U.
C13_AddRemoveEmpty ==
    \A u \in Urls :
        AddThenRemove(u) => "clients" \in DOMAIN document /\ document["clients"] = <<>>

\* C13 (amended): _remove_client(_add_client(doc, U), U) has a clients list that
\* is doc's clients list (empty if absent) without the entries equal to
\* {url: U}: it is [] when doc has no client other than U.
C13_AddRemoveDropsUrl ==
    \A u \in Urls :
        AddThenRemove(u) =>
            /\ "clients" \in DOMAIN document
            /\ document["clients"] = Without(ClientsOf(document0), [url |-> u])
            /\ (\A i \in DOMAIN ClientsOf(document0) : ClientsOf(document0)[i].url = u)
                 => document["clients"] = <<>>
            /\ SameSections(document, document0)

C13_Witness ==
    \E u \in Urls :
        /\ AddThenRemove(u)
        /\ Len(ClientsOf(document0)) = 2
        /\ Len(document["clients"]) = 1

\* C14: _add_client(_add_client(doc, U), U) has doc's clients list (empty if
\* absent) followed by two entries {url: U}; the other sections are doc's.
C14_AddTwice ==
    \A u \in Urls :
        applied = <<[op |-> "_add_client", url |-> u], [op |-> "_add_client", url |-> u]>>
        => /\ "clients" \in DOMAIN document
           /\ document["clients"] = ClientsOf(document0) \o <<[url |-> u], [url |-> u]>>
           /\ SameSections(document, document0)

C14_Witness ==
    \E u \in Urls :
        /\ applied = <<[op |-> "_add_client", url |-> u], [op |-> "_add_client", url |-> u]>>
        /\ \E i \in DOMAIN ClientsOf(document0) : ClientsOf(document0)[i].url = u

DepartedOps == {"pull", "push_config", "forget", "stop_promtail", "restart_promtail"}

OthersKept(unit, before, after) ==
    \A u \in Units \ {unit} :
        /\ u \in DOMAIN after <=> u \in DOMAIN before
        /\ u \in DOMAIN before => after[u] = before[u]

C16_DepartedNeverProvisions ==
    [][last'.event.name = "relation_departed"
       => /\ \A i \in DOMAIN last'.ops : last'.ops[i] \in DepartedOps
          /\ UNCHANGED <<zip_file, local_binary, workload_binary, layer>>
          /\ config_file'.exists = config_file.exists
          /\ config_file.exists =>
                SameSections(yaml_safe_load(config_file'.text),
                             yaml_safe_load(config_file.text))
          /\ OthersKept(last'.event.unit, grafana_agents, grafana_agents')]_vars

C16_Witness ==
    /\ last.event.name = "relation_departed"
    /\ last.error = NoError
    /\ Issued("restart_promtail")
    /\ last.event.unit \notin DOMAIN grafana_agents
    /\ DOMAIN grafana_agents # {}

\* C17: a relation-changed handler that reaches the registry sets the entry of
\* its unit to the announced URL, a relation-departed handler that reaches it
\* removes the entry of its unit; the entries of the other units stay, and a
\* handler that does not reach the registry leaves it as it is.
Reached(l, op) == \E i \in DOMAIN l.ops : l.ops[i] = op

C17_RegistryOneEntry ==
    [][/\ Reached(last', "record")
            => /\ last'.event.unit \in DOMAIN grafana_agents'
               /\ grafana_agents'[last'.event.unit] = last'.event.data.loki_push_api
               /\ OthersKept(last'.event.unit, grafana_agents, grafana_agents')
       /\ Reached(last', "forget")
            => /\ last'.event.unit \in DOMAIN grafana_agents
               /\ last'.event.unit \notin DOMAIN grafana_agents'
               /\ OthersKept(last'.event.unit, grafana_agents, grafana_agents')
       /\ (~Reached(last', "record") /\ ~Reached(last', "forget"))
            => grafana_agents' = grafana_agents]_vars

\* The unit announced a second URL: its entry is the new one, the list holds both.
C17_Witness ==
    /\ Issued("record")
    /\ DOMAIN grafana_agents = {last.event.unit}
    /\ Len(Clients(config_file)) = 2
    /\ Clients(config_file)[1].url # grafana_agents[last.event.unit]
    /\ Clients(config_file)[2].url = grafana_agents[last.event.unit]

\* C18 (stated as claimed): a relation-departed handler for a unit the registry
\* holds, in a run where no call fails on its own, returns without an
\* exception and has stopped or restarted the sidecar.  (The handler issues no
\* call exactly when the unit is not in the registry.)
C18_DepartedReturns ==
    (last.event.name = "relation_departed" /\ last.ops # <<>>)
    => /\ last.error = NoError
       /\ Issued("stop_promtail") \/ Issued("restart_promtail")

\* C19 (stated as claimed): a relation-departed handler stops the sidecar only
\* if the registry is empty afterwards; while a unit is still registered the
\* sidecar is restarted, not stopped, and the URLs of the registered units are
\* in the clients list.
C19_StopOnlyWhenNoneLeft ==
    (last.event.name = "relation_departed" /\ Issued("forget"))
    => /\ Issued("stop_promtail") => DOMAIN grafana_agents = {}
       /\ DOMAIN grafana_agents # {}
            => /\ Issued("restart_promtail")
               /\ ~Issued("stop_promtail")
               /\ AgentUrls \subseteq ClientUrls

\* C20 (stated as claimed): a handler issues the restart of the sidecar only
\* with the binary in the container and the layer declared.
C20_RestartOnlyDeclared ==
    Issued("restart_promtail") => layer /\ workload_binary # Absent

====
